---------------------------- MODULE Spec2Model ----------------------------
(***************************************************************************)
(* A model of election_scraper (src/main.py): the index-page extractor     *)
(* parse_municipalities, the results-page extractor parse_results, the     *)
(* table builder write_municipality_csv and the driver main.               *)
(*                                                                         *)
(* Texts are TLA+ strings.  Python orders str values by code point, so the *)
(* category names carry their code points (CodePoints) and the sort is     *)
(* computed on those.  A parsed page is the part of the document tree the  *)
(* find_all calls of the code select: the matching cells in document       *)
(* order, each with its text (and, for a code cell, its hyperlinks).       *)
(*                                                                         *)
(* src/main.py does not compile as it stands: the return annotation of     *)
(* parse_results (line 60) lacks its closing bracket.  The model follows   *)
(* the function bodies, which is what runs once the annotation is closed.  *)
(***************************************************************************)
EXTENDS Integers, Sequences, FiniteSets, TLC

\* ------------------------------------------------------------------ bounds

\* The longest all_rows handed to the table builder on its own.
MaxRows == 2
\* The most td.cislo cells, and the most td.overflow_name cells, of an index page.
MaxCells == 3
\* The most party cells, and the most vote cells, of a results page.
MaxParties == 3
\* The largest len(sys.argv) tried.
MaxArgv == 4

\* ------------------------------------------------------------- vocabulary

\* Category (party) names that occur on the pages.
Names == {"A", "AB", "B"}
\* The code points of each name: what Python's str comparison reads.
CodePoints(s) ==
    CASE s = "A" -> <<65>>
      [] s = "AB" -> <<65, 66>>
      [] s = "B" -> <<66>>
\* Vote-count texts.
VoteTexts == {"10", "20"}

Min(a, b) == IF a <= b THEN a ELSE b

\* All sequences over S of length at most n.
SeqUpTo(S, n) == UNION {[1..k -> S] : k \in 0..n}

\* ------------------------------------------------- Python's str ordering

\* a < b for two str values given as code-point sequences: at the first
\* position where they differ the smaller code point wins; a proper prefix
\* is smaller.
SeqLexLess(a, b) ==
    \E k \in 1..(Min(Len(a), Len(b)) + 1) :
        /\ \A j \in 1..(k - 1) : a[j] = b[j]
        /\ \/ k > Len(a) /\ k <= Len(b)
           \/ k <= Len(a) /\ k <= Len(b) /\ a[k] < b[k]

StrLess(s, t) == SeqLexLess(CodePoints(s), CodePoints(t))

\* sorted(S) for a set S of str.
RECURSIVE Sorted(_)
Sorted(S) ==
    IF S = {} THEN <<>>
    ELSE LET m == CHOOSE x \in S : \A y \in S \ {x} : StrLess(x, y)
         IN  <<m>> \o Sorted(S \ {m})

\* ------------------------------------------------ write_municipality_csv

\* The five fixed header columns.
FixedColumns == <<"id", "location", "registered voters", "envelopes", "valid votes">>

\* A faulty variant of AllParties: the columns are taken from the first
\* row alone, not from the union over the rows.
AllPartiesOfFirstRow(all_rows) ==
    IF all_rows = <<>> THEN <<>> ELSE Sorted(DOMAIN all_rows[1].party_votes)

\* sorted({party for row in all_rows for party in row["party_votes"].keys()})
AllParties(all_rows) ==
    Sorted(UNION {DOMAIN all_rows[k].party_votes : k \in 1..Len(all_rows)})

\* row["party_votes"].get(party, "")
DictGet(d, key, default) == IF key \in DOMAIN d THEN d[key] ELSE default

\* The header row.
Header(all_rows) == FixedColumns \o AllParties(all_rows)

\* A faulty variant of RowValues: a category the row lacks is left out
\* instead of being written as "".
RowValuesOmitting(row, all_parties) ==
    <<row.id, row.location, row.registered, row.envelopes, row.valid>>
    \o SelectSeq([k \in 1..Len(all_parties) |->
                     DictGet(row.party_votes, all_parties[k], "")],
                 LAMBDA v : v # "")

\* One data row: the five scalar fields, then one value per category column.
RowValues(row, all_parties) ==
    <<row.id, row.location, row.registered, row.envelopes, row.valid>>
    \o [k \in 1..Len(all_parties) |-> DictGet(row.party_votes, all_parties[k], "")]

\* What the csv writer is handed: the header and one value sequence per row.
WriteMunicipalityCsv(all_rows) ==
    [header |-> Header(all_rows),
     rows   |-> [k \in 1..Len(all_rows) |->
                    RowValues(all_rows[k], AllParties(all_rows))]]

\* ----------------------------------------------------- parse_municipalities

\* Hyperlinks found inside code cells: the link text and the href attribute
\* (NoAttr: the tag has no href, so a["href"] raises KeyError).
NoAttr == "<no href>"
Anchors ==
    {[text |-> "500011", href |-> "ps311?x=1"],
     [text |-> "500012", href |-> "ps311?x=2"],
     [text |-> "500013", href |-> NoAttr]}
\* What td.find_all("a") finds in one td.cislo cell.
CisloCells ==
    {<<>>} \cup {<<a>> : a \in Anchors}
           \cup {<<[text |-> "500011", href |-> "ps311?x=1"],
                   [text |-> "500012", href |-> "ps311?x=2"]>>}
\* Texts of td.overflow_name cells of an index page.
LocationNames == {"Alpha", "Beta"}

\* An index page: its td.cislo cells and its td.overflow_name cells, each in
\* document order.
IndexPages ==
    [cislo : SeqUpTo(CisloCells, MaxCells),
     overflow_name : SeqUpTo(LocationNames, MaxCells)]

\* [f(a) for td in cells for a in td.find_all("a")], f naming a field of a.
RECURSIVE FlattenField(_, _)
FlattenField(cells, f) ==
    IF cells = <<>> THEN <<>>
    ELSE [k \in 1..Len(Head(cells)) |-> Head(cells)[k][f]]
         \o FlattenField(Tail(cells), f)

\* A faulty variant of ParseMunicipalities: the lists are returned in the
\* order its docstring gives (hrefs, IDs, names), which is not the order the
\* caller unpacks.
ParseMunicipalitiesDocOrder(page) ==
    LET hrefs == FlattenField(page.cislo, "href")
        ids   == FlattenField(page.cislo, "text")
        names == page.overflow_name
    IN  IF \E k \in 1..Len(hrefs) : hrefs[k] = NoAttr
        THEN [raised |-> TRUE, municipality_ids |-> <<>>,
              municipality_names |-> <<>>, municipality_hrefs |-> <<>>]
        ELSE [raised |-> FALSE, municipality_ids |-> hrefs,
              municipality_names |-> ids, municipality_hrefs |-> names]

\* parse_municipalities: KeyError when some hyperlink has no href, else the
\* three lists.
ParseMunicipalities(page) ==
    LET hrefs == FlattenField(page.cislo, "href")
        ids   == FlattenField(page.cislo, "text")
        names == page.overflow_name
    IN  IF \E k \in 1..Len(hrefs) : hrefs[k] = NoAttr
        THEN [raised |-> TRUE, municipality_ids |-> <<>>,
              municipality_names |-> <<>>, municipality_hrefs |-> <<>>]
        ELSE [raised |-> FALSE, municipality_ids |-> ids,
              municipality_names |-> names, municipality_hrefs |-> hrefs]

\* zip(municipality_ids, municipality_names, municipality_hrefs): as many
\* triples as the shortest list has entries.
Zip3(ids, names, hrefs) ==
    [k \in 1..Min(Len(ids), Min(Len(names), Len(hrefs))) |->
        [code |-> ids[k], name |-> names[k], link |-> hrefs[k]]]

\* The LocationRefs the driver iterates over.
LocationRefs(res) ==
    Zip3(res.municipality_ids, res.municipality_names, res.municipality_hrefs)

\* ------------------------------------------------------------ parse_results

\* What find_all finds for one scalar marker: no cell, a cell with empty
\* text, or two cells.
RegisteredCells == {<<>>, <<"">>, <<"100", "101">>}
EnvelopeCells == {<<>>, <<"">>, <<"80", "81">>}
ValidCells == {<<>>, <<"">>, <<"75", "76">>}

\* A results page: the cells each find_all of parse_results selects.
ResultPages ==
    [sa2 : RegisteredCells, sa3 : EnvelopeCells, sa6 : ValidCells,
     overflow_name : SeqUpTo(Names, MaxParties),
     votes : SeqUpTo(VoteTexts, MaxParties)]

\* A faulty variant of PartyVotes: a repeated key keeps the first value.
PartyVotesKeepFirst(parties, votes) ==
    LET n == Min(Len(parties), Len(votes))
        first(p) == CHOOSE k \in 1..n :
                      /\ parties[k] = p
                      /\ \A j \in 1..(k - 1) : parties[j] # p
    IN  [p \in {parties[k] : k \in 1..n} |-> votes[first(p)]]

\* {party: vote for party, vote in zip(parties, votes)}: zip stops at the
\* shorter list and a repeated key keeps the last value assigned.
PartyVotes(parties, votes) ==
    LET n == Min(Len(parties), Len(votes))
        last(p) == CHOOSE k \in 1..n :
                      /\ parties[k] = p
                      /\ \A j \in (k + 1)..n : parties[j] # p
    IN  [p \in {parties[k] : k \in 1..n} |-> votes[last(p)]]

\* parse_results (the region name it also returns is discarded by main).
ParseResults(page) ==
    [registered_voters |-> page.sa2,
     envelopes         |-> page.sa3,
     valid_votes       |-> page.sa6,
     party_votes       |-> PartyVotes(page.overflow_name, page.votes)]

\* x[0] if x else ""
FirstOrEmpty(x) == IF x # <<>> THEN x[1] ELSE ""

\* The row main builds for one location from its parsed results.
BuildRow(m_id, m_name, res) ==
    [id          |-> m_id,
     location    |-> m_name,
     registered  |-> FirstOrEmpty(res.registered_voters),
     envelopes   |-> FirstOrEmpty(res.envelopes),
     valid       |-> FirstOrEmpty(res.valid_votes),
     party_votes |-> res.party_votes]

\* create_link
CreateLink(path) == <<"https://www.volby.cz/pls/ps2017nss/", path>>

\* ------------------------------------------------------------------ state

VARIABLES
    pc,           \* where main is: "start", "fetch_index", "wait_index",
                  \* "loop", "wait_location", "exited"; "idle" when main is not run
    argv_len,     \* len(sys.argv)
    in_flight,    \* the URLs requested with get() and not yet answered
    fetched,      \* every URL get() was called with, in call order
    refs,         \* the zip of the three lists parse_municipalities returned
    idx,          \* the position in refs of the next location (from 1)
    all_rows,     \* the rows appended so far
    writes,       \* every table written to the output file, in order
    printed,      \* the messages printed, in order
    exit_status,  \* the process's exit status once pc = "exited" (-1 before)
    call_pc,      \* a function tried on its own: "idle", "ready", "returned"
    call_arg,     \* its argument
    call_ret      \* its result

driver_vars == <<pc, argv_len, in_flight, fetched, refs, idx, all_rows, writes,
                 printed, exit_status>>
call_vars == <<call_pc, call_arg, call_ret>>
vars == <<driver_vars, call_vars>>

\* main is not run.
DriverIdle ==
    /\ pc = "idle"
    /\ argv_len = 0
    /\ in_flight = {}
    /\ fetched = <<>>
    /\ refs = <<>>
    /\ idx = 1
    /\ all_rows = <<>>
    /\ writes = <<>>
    /\ printed = <<>>
    /\ exit_status = -1

\* No function is tried on its own.
CallIdle ==
    /\ call_pc = "idle"
    /\ call_arg = <<>>
    /\ call_ret = <<>>

\* ------------------------------------------------------------------- main

\* sys.argv[1], the URL of the index page (a URL is a pair: what precedes
\* the relative path, and the relative path).
MunicipalityUrl == <<"<municipality_url>", "">>

\* Results pages the driver's fetches answer with: two ordinary pages with
\* different parties, and a page on which no marker matches (the body of an
\* error response is such a page: get() does not raise on an HTTP status).
DriverPages ==
    {[sa2 |-> <<"100", "101">>, sa3 |-> <<"80", "81">>, sa6 |-> <<"75", "76">>,
      overflow_name |-> <<"B", "A">>, votes |-> <<"10", "20">>],
     [sa2 |-> <<"">>, sa3 |-> <<"80", "81">>, sa6 |-> <<>>,
      overflow_name |-> <<"AB", "B">>, votes |-> <<"20", "10">>],
     [sa2 |-> <<>>, sa3 |-> <<>>, sa6 |-> <<>>,
      overflow_name |-> <<>>, votes |-> <<>>]}

Init ==
    /\ pc = "start"
    /\ argv_len \in 1..MaxArgv
    /\ in_flight = {}
    /\ fetched = <<>>
    /\ refs = <<>>
    /\ idx = 1
    /\ all_rows = <<>>
    /\ writes = <<>>
    /\ printed = <<>>
    /\ exit_status = -1
    /\ CallIdle

\* sys.exit(status), after printing msg.
Exit(msg, status) ==
    /\ pc' = "exited"
    /\ printed' = Append(printed, msg)
    /\ exit_status' = status
    /\ in_flight' = {}

\* A faulty variant of CheckArgs: only too few arguments are refused.
CheckArgsTooFewOnly ==
    /\ pc = "start"
    /\ IF argv_len < 3
       THEN /\ Exit("Usage", 1)
       ELSE /\ pc' = "fetch_index"
            /\ UNCHANGED <<printed, exit_status, in_flight>>
    /\ UNCHANGED <<argv_len, fetched, refs, idx, all_rows, writes, call_vars>>

\* The argument count check.
CheckArgs ==
    /\ pc = "start"
    /\ IF argv_len # 3
       THEN /\ Exit("Usage", 1)
       ELSE /\ pc' = "fetch_index"
            /\ UNCHANGED <<printed, exit_status, in_flight>>
    /\ UNCHANGED <<argv_len, fetched, refs, idx, all_rows, writes, call_vars>>

\* get(municipality_url) is called.
RequestIndex ==
    /\ pc = "fetch_index"
    /\ pc' = "wait_index"
    /\ in_flight' = in_flight \cup {MunicipalityUrl}
    /\ fetched' = Append(fetched, MunicipalityUrl)
    /\ UNCHANGED <<argv_len, refs, idx, all_rows, writes, printed, exit_status,
                   call_vars>>

\* A faulty variant of IndexFetchFailed: the except clause prints and main
\* goes on with no locations.
IndexFetchSwallowed ==
    /\ pc = "wait_index"
    /\ pc' = "loop"
    /\ printed' = Append(printed, "Error loading")
    /\ in_flight' = {}
    /\ UNCHANGED <<argv_len, fetched, refs, idx, all_rows, writes, exit_status,
                   call_vars>>

\* get_parsed_response raises: the except clause prints and exits.
IndexFetchFailed ==
    /\ pc = "wait_index"
    /\ Exit("Error loading", 1)
    /\ UNCHANGED <<argv_len, fetched, refs, idx, all_rows, writes, call_vars>>

\* get_parsed_response returns a page; parse_municipalities runs on it
\* outside the try block, so its KeyError ends the process with a traceback.
IndexFetched ==
    /\ pc = "wait_index"
    /\ \E page \in IndexPages :
         LET res == ParseMunicipalities(page)
         IN  IF res.raised
             THEN /\ Exit("Traceback: KeyError", 1)
                  /\ UNCHANGED <<refs, idx, all_rows>>
             ELSE /\ pc' = "loop"
                  /\ in_flight' = in_flight \ {MunicipalityUrl}
                  /\ refs' = LocationRefs(res)
                  /\ idx' = 1
                  /\ all_rows' = <<>>
                  /\ UNCHANGED <<printed, exit_status>>
    /\ UNCHANGED <<argv_len, fetched, writes, call_vars>>

\* The loop takes the next location and calls get(create_link(href)).
RequestLocation ==
    /\ pc = "loop"
    /\ idx <= Len(refs)
    /\ pc' = "wait_location"
    /\ in_flight' = in_flight \cup {CreateLink(refs[idx].link)}
    /\ fetched' = Append(fetched, CreateLink(refs[idx].link))
    /\ UNCHANGED <<argv_len, refs, idx, all_rows, writes, printed, exit_status,
                   call_vars>>

\* A faulty variant of LocationFetchFailed: the location is skipped and the
\* loop continues.
LocationFetchSkipped ==
    /\ pc = "wait_location"
    /\ pc' = "loop"
    /\ idx' = idx + 1
    /\ printed' = Append(printed, "Traceback: get")
    /\ in_flight' = {}
    /\ UNCHANGED <<argv_len, fetched, refs, all_rows, writes, exit_status,
                   call_vars>>

\* The location's fetch raises: nothing catches it.
LocationFetchFailed ==
    /\ pc = "wait_location"
    /\ Exit("Traceback: get", 1)
    /\ UNCHANGED <<argv_len, fetched, refs, idx, all_rows, writes, call_vars>>

\* A faulty variant of LocationFetched: the table is rewritten after every
\* location.
LocationFetchedWritingEachTime ==
    /\ pc = "wait_location"
    /\ \E page \in DriverPages :
         LET rows == Append(all_rows,
                            BuildRow(refs[idx].code, refs[idx].name,
                                     ParseResults(page)))
         IN  /\ all_rows' = rows
             /\ writes' = Append(writes, WriteMunicipalityCsv(rows))
    /\ in_flight' = in_flight \ {CreateLink(refs[idx].link)}
    /\ idx' = idx + 1
    /\ pc' = "loop"
    /\ UNCHANGED <<argv_len, fetched, refs, printed, exit_status, call_vars>>

\* A faulty variant of LocationFetched: a location whose page shows no
\* party gets no row.
LocationFetchedDroppingEmpty ==
    /\ pc = "wait_location"
    /\ \E page \in DriverPages :
         LET res == ParseResults(page)
         IN  all_rows' = IF DOMAIN res.party_votes = {}
                         THEN all_rows
                         ELSE Append(all_rows,
                                     BuildRow(refs[idx].code, refs[idx].name, res))
    /\ in_flight' = in_flight \ {CreateLink(refs[idx].link)}
    /\ idx' = idx + 1
    /\ pc' = "loop"
    /\ UNCHANGED <<argv_len, fetched, refs, writes, printed, exit_status,
                   call_vars>>

\* The location's page arrives; its row is built and appended.
LocationFetched ==
    /\ pc = "wait_location"
    /\ \E page \in DriverPages :
         all_rows' = Append(all_rows,
                            BuildRow(refs[idx].code, refs[idx].name,
                                     ParseResults(page)))
    /\ in_flight' = in_flight \ {CreateLink(refs[idx].link)}
    /\ idx' = idx + 1
    /\ pc' = "loop"
    /\ UNCHANGED <<argv_len, fetched, refs, writes, printed, exit_status,
                   call_vars>>

\* The loop is over: the table is written and the confirmation printed.
WriteCsv ==
    /\ pc = "loop"
    /\ idx > Len(refs)
    /\ writes' = Append(writes, WriteMunicipalityCsv(all_rows))
    /\ Exit("Saved", 0)
    /\ UNCHANGED <<argv_len, fetched, refs, idx, all_rows, call_vars>>

\* The loop is over and open(filename, "w") raises.
WriteFailed ==
    /\ pc = "loop"
    /\ idx > Len(refs)
    /\ Exit("Traceback: open", 1)
    /\ UNCHANGED <<argv_len, fetched, refs, idx, all_rows, writes, call_vars>>

Next ==
    \/ CheckArgs
    \/ RequestIndex
    \/ IndexFetchFailed
    \/ IndexFetched
    \/ RequestLocation
    \/ LocationFetchFailed
    \/ LocationFetched
    \/ WriteCsv
    \/ WriteFailed

Spec == Init /\ [][Next]_vars

\* ------------------------------------------------ the functions on their own

\* party_votes dicts: a vote text for each name of some subset of Names.
PartyVoteDicts == UNION {[S -> VoteTexts] : S \in SUBSET Names}

\* The rows the table builder is tried on.
TableRows ==
    [id : {"500011"}, location : {"Alpha"},
     registered : {"", "100"}, envelopes : {"80"}, valid : {"75"},
     party_votes : PartyVoteDicts]

\* The function returns.
Return(value) ==
    /\ call_pc = "ready"
    /\ call_pc' = "returned"
    /\ call_ret' = value
    /\ UNCHANGED <<call_arg, driver_vars>>

\* write_municipality_csv on any sequence of rows.
TableInit ==
    /\ DriverIdle
    /\ call_pc = "ready"
    /\ call_arg \in SeqUpTo(TableRows, MaxRows)
    /\ call_ret = <<>>

CallWriteMunicipalityCsv == Return(WriteMunicipalityCsv(call_arg))

SpecTable == TableInit /\ [][CallWriteMunicipalityCsv]_vars

\* parse_municipalities on any index page.
IndexInit ==
    /\ DriverIdle
    /\ call_pc = "ready"
    /\ call_arg \in IndexPages
    /\ call_ret = <<>>

CallParseMunicipalities == Return(ParseMunicipalities(call_arg))

SpecIndex == IndexInit /\ [][CallParseMunicipalities]_vars

\* parse_results on any results page, and the row main builds from it.
ResultsInit ==
    /\ DriverIdle
    /\ call_pc = "ready"
    /\ call_arg \in ResultPages
    /\ call_ret = <<>>

CallParseResults ==
    Return([parsed |-> ParseResults(call_arg),
            row    |-> BuildRow("500011", "Alpha", ParseResults(call_arg))])

SpecResults == ResultsInit /\ [][CallParseResults]_vars

\* ------------------------------------------------------------- properties

Last(q) == q[Len(q)]
Returned == call_pc = "returned"

\* C1: every data row the table builder emits has exactly as many values as
\* the header has columns, and under each category column it holds the row's
\* vote count for that category when the row's party_votes has it and the
\* empty string when it has not.
C1_RowsMatchHeader ==
    Returned =>
        /\ Len(call_ret.rows) = Len(call_arg)
        /\ \A k \in 1..Len(call_arg) :
             LET values == call_ret.rows[k]
                 pv     == call_arg[k].party_votes
             IN  /\ Len(values) = Len(call_ret.header)
                 /\ \A c \in (Len(FixedColumns) + 1)..Len(call_ret.header) :
                      values[c] = IF call_ret.header[c] \in DOMAIN pv
                                  THEN pv[call_ret.header[c]]
                                  ELSE ""

\* A table with a row that lacks a category another row has, so that its
\* column holds "" before a later column that holds a count.
C1_Witness ==
    /\ Returned
    /\ Len(call_arg) = 2
    /\ DOMAIN call_arg[1].party_votes = {"A", "B"}
    /\ DOMAIN call_arg[2].party_votes = {"AB", "B"}
    /\ call_ret.rows[1][7] = ""
    /\ call_ret.rows[1][8] = call_arg[1].party_votes["B"]

\* C2: the header is the five fixed columns followed by every category name
\* of any row, each once, in ascending order of Python's str comparison;
\* rows with the category sets {A, B} and {AB, B} give [A, AB, B] in either
\* row order.
C2_HeaderSortedUnion ==
    Returned =>
        LET header == call_ret.header
            n      == Len(header) - Len(FixedColumns)
            cat(j) == header[Len(FixedColumns) + j]
            keys   == UNION {DOMAIN call_arg[k].party_votes : k \in 1..Len(call_arg)}
        IN  /\ n >= 0
            /\ \A j \in 1..Len(FixedColumns) : header[j] = FixedColumns[j]
            /\ {cat(j) : j \in 1..n} = keys
            /\ n = Cardinality(keys)
            /\ \A j \in 1..(n - 1) : StrLess(cat(j), cat(j + 1))
            /\ (/\ Len(call_arg) = 2
                /\ {DOMAIN call_arg[1].party_votes, DOMAIN call_arg[2].party_votes}
                     = {{"A", "B"}, {"AB", "B"}})
               => header = FixedColumns \o <<"A", "AB", "B">>

\* The second row brings a category that sorts between two of the first.
C2_Witness ==
    /\ Returned
    /\ Len(call_arg) = 2
    /\ DOMAIN call_arg[1].party_votes = {"A", "B"}
    /\ DOMAIN call_arg[2].party_votes = {"AB", "B"}
    /\ call_ret.header[7] = "AB"

C4_LocationFailureAborts ==
    (printed # <<>> /\ Last(printed) = "Traceback: get") =>
        /\ pc = "exited"
        /\ exit_status = 1
        /\ writes = <<>>
        /\ idx <= Len(refs)
        /\ Len(fetched) = 1 + idx
        /\ Last(fetched) = CreateLink(refs[idx].link)
        /\ Len(all_rows) = idx - 1
        /\ ~ENABLED Next

\* The fetch of the middle one of three locations has failed, after the
\* first location's row was extracted.
C4_Witness ==
    /\ pc = "exited"
    /\ Last(printed) = "Traceback: get"
    /\ Len(refs) = 3
    /\ idx = 2
    /\ Len(all_rows) = 1

\* C5: the output file is written at most once, only after the page of every
\* location has been fetched and its row extracted, never before or between
\* fetches; a run ends with status 0 exactly when it has written the file
\* and printed the confirmation last.
C5_WriteOnceAfterAllFetches ==
    /\ [](/\ Len(writes) <= 1
          /\ writes # <<>> =>
               /\ pc = "exited"
               /\ in_flight = {}
               /\ Len(fetched) = 1 + Len(refs)
               /\ Len(all_rows) = Len(refs)
               /\ writes[1] = WriteMunicipalityCsv(all_rows)
          /\ (pc = "exited" /\ exit_status = 0) <=>
               (writes # <<>> /\ printed = <<"Saved">>))
    /\ [][/\ fetched' # fetched => (writes = <<>> /\ writes' = <<>>)
          /\ writes' # writes =>
               (writes = <<>> /\ fetched' = fetched /\ all_rows' = all_rows)]_vars

\* A run over three locations has written its table.
C5_Witness ==
    /\ pc = "exited"
    /\ exit_status = 0
    /\ Len(refs) = 3
    /\ Len(writes) = 1
    /\ Len(writes[1].rows) = 3

\* C6 as claimed: with N code cells and N name cells the extractor returns
\* N codes, N names and N links.
C6_AsClaimed ==
    (Returned /\ Len(call_arg.cislo) = Len(call_arg.overflow_name)) =>
        /\ ~call_ret.raised
        /\ Len(call_ret.municipality_ids) = Len(call_arg.cislo)
        /\ Len(call_ret.municipality_names) = Len(call_arg.cislo)
        /\ Len(call_ret.municipality_hrefs) = Len(call_arg.cislo)

\* Every code cell holds exactly one hyperlink, and that has an href.
OneLinkPerCell(page) ==
    \A k \in 1..Len(page.cislo) :
        Len(page.cislo[k]) = 1 /\ page.cislo[k][1].href # NoAttr

\* C6: for an index page with N code cells, each holding exactly one
\* hyperlink with an href, and N name cells, the extractor returns N codes,
\* N names and N links, the k-th of each taken from the k-th cell, and the
\* driver's zip of them has N entries; a page with no matching cell gives
\* three empty lists and no error.
C6_OneLinkPerCell ==
    Returned =>
        /\ (OneLinkPerCell(call_arg)
              /\ Len(call_arg.cislo) = Len(call_arg.overflow_name)) =>
             /\ ~call_ret.raised
             /\ Len(call_ret.municipality_ids) = Len(call_arg.cislo)
             /\ Len(call_ret.municipality_names) = Len(call_arg.cislo)
             /\ Len(call_ret.municipality_hrefs) = Len(call_arg.cislo)
             /\ Len(LocationRefs(call_ret)) = Len(call_arg.cislo)
             /\ \A k \in 1..Len(call_arg.cislo) :
                  /\ call_ret.municipality_ids[k] = call_arg.cislo[k][1].text
                  /\ call_ret.municipality_hrefs[k] = call_arg.cislo[k][1].href
                  /\ call_ret.municipality_names[k] = call_arg.overflow_name[k]
                  /\ LocationRefs(call_ret)[k] =
                       [code |-> call_arg.cislo[k][1].text,
                        name |-> call_arg.overflow_name[k],
                        link |-> call_arg.cislo[k][1].href]
        /\ (call_arg.cislo = <<>> /\ call_arg.overflow_name = <<>>) =>
             /\ ~call_ret.raised
             /\ call_ret.municipality_ids = <<>>
             /\ call_ret.municipality_names = <<>>
             /\ call_ret.municipality_hrefs = <<>>

\* Three locations, each code cell with its one link, have been extracted.
C6_Witness ==
    /\ Returned
    /\ Len(call_arg.cislo) = 3
    /\ Len(call_arg.overflow_name) = 3
    /\ OneLinkPerCell(call_arg)
    /\ call_arg.cislo[1] # call_arg.cislo[2]
    /\ call_arg.overflow_name[2] # call_arg.overflow_name[3]
    /\ Len(call_ret.municipality_ids) = 3

\* C7 as claimed: every category name found on the page is in the mapping
\* with the vote count found at its own index.
C7_AsClaimed ==
    Returned =>
        \A i \in 1..Len(call_arg.overflow_name) :
            /\ i <= Len(call_arg.votes)
            /\ call_arg.overflow_name[i] \in DOMAIN call_ret.parsed.party_votes
            /\ call_ret.parsed.party_votes[call_arg.overflow_name[i]]
                 = call_arg.votes[i]

\* C7: the mapping holds the names found at the indices both lists have
\* and no other; a name is mapped to the count at the last such index where
\* it occurs.  So when the names are distinct and there are at least as many
\* counts as names, every name is mapped to the count at its own index, and
\* names [A, AB, B] with counts [10, 20, 10] give {A: 10, AB: 20, B: 10}.
C7_PairedByPosition ==
    Returned =>
        LET names == call_arg.overflow_name
            votes == call_arg.votes
            n     == Min(Len(names), Len(votes))
            pv    == call_ret.parsed.party_votes
        IN  /\ DOMAIN pv = {names[i] : i \in 1..n}
            /\ \A i \in 1..n :
                 (\A j \in (i + 1)..n : names[j] # names[i]) => pv[names[i]] = votes[i]
            /\ (/\ Len(votes) >= Len(names)
                /\ \A i, j \in 1..Len(names) : names[i] = names[j] => i = j)
               => \A i \in 1..Len(names) :
                     names[i] \in DOMAIN pv /\ pv[names[i]] = votes[i]
            /\ (names = <<"A", "AB", "B">> /\ votes = <<"10", "20", "10">>)
               => pv = [p \in {"A", "AB", "B"} |-> IF p = "AB" THEN "20" ELSE "10"]
            /\ call_ret.row.party_votes = pv

\* A page with three distinct names and three counts has been extracted.
C7_Witness ==
    /\ Returned
    /\ call_arg.overflow_name = <<"B", "A", "AB">>
    /\ call_arg.votes = <<"10", "20", "20">>
    /\ call_ret.parsed.party_votes["A"] = "20"

\* The row main builds from the same page with a marker of empty text put
\* in the place of each marker the page lacks.
RowWithEmptyMarkers ==
    LET fill(cells) == IF cells = <<>> THEN <<"">> ELSE cells
    IN  BuildRow("500011", "Alpha",
                 ParseResults([call_arg EXCEPT !.sa2 = fill(@),
                                               !.sa3 = fill(@),
                                               !.sa6 = fill(@)]))

\* C8: a counter whose marker is not on the page is absent for exactly that
\* counter while the others keep their first match's text, and the row
\* stores an absent counter as a value other than the one it stores for a
\* marker with empty text.
C8_AbsentDistinctFromEmpty ==
    Returned =>
        /\ (call_ret.parsed.registered_voters = <<>>) <=> (call_arg.sa2 = <<>>)
        /\ (call_ret.parsed.envelopes = <<>>) <=> (call_arg.sa3 = <<>>)
        /\ (call_ret.parsed.valid_votes = <<>>) <=> (call_arg.sa6 = <<>>)
        /\ call_arg.sa2 # <<>> => call_ret.row.registered = call_arg.sa2[1]
        /\ call_arg.sa3 # <<>> => call_ret.row.envelopes = call_arg.sa3[1]
        /\ call_arg.sa6 # <<>> => call_ret.row.valid = call_arg.sa6[1]
        /\ call_arg.sa2 = <<>> =>
             call_ret.row.registered # RowWithEmptyMarkers.registered
        /\ call_arg.sa3 = <<>> =>
             call_ret.row.envelopes # RowWithEmptyMarkers.envelopes
        /\ call_arg.sa6 = <<>> =>
             call_ret.row.valid # RowWithEmptyMarkers.valid

C10_UsageError ==
    (argv_len # 3 /\ pc # "start") =>
        /\ pc = "exited"
        /\ printed = <<"Usage">>
        /\ exit_status = 1
        /\ fetched = <<>>
        /\ in_flight = {}
        /\ writes = <<>>
        /\ ~ENABLED Next

\* The program was given three arguments and has exited.
C10_Witness ==
    /\ argv_len = 4
    /\ pc = "exited"

=============================================================================
